---- MODULE Spec2Model ----
(***************************************************************************)
(* Model of the creative pipeline page (CreativePipeline): the reducer    *)
(* that holds the pipeline session, the asynchronous handlers that call   *)
(* the image Generator, and the controls that dispatch to the reducer.    *)
(*                                                                         *)
(* Strings of the program are modelled by small naturals: 0 is the empty  *)
(* string (and null, which the code only ever tests for truthiness), a    *)
(* positive number is a non-empty value.  Artifact handles (image URLs)    *)
(* are 1..NumArtifacts.  The request parameters that never reach the       *)
(* reducer's control flow (platform, aspect ratio, product image, the     *)
(* composition / colour / typography settings) are not part of the model. *)
(***************************************************************************)
EXTENDS Integers, Sequences, FiniteSets, TLC

\* ------------------------------------------------------------------ bounds
NumArtifacts == 2

\* the largest batch quantity explored (the slider goes from 1 to 10)
MaxQuantity == 3

\* the number of batch launches explored
MaxRuns == 2

Artifacts == 1..NumArtifacts

\* --------------------------------------------------------------- constants
CONFIG_STEPS == <<"topic", "product", "settings">>

PIPELINE_STEPS == <<"baseScene", "composition", "colorGrading", "typography">>

Steps == {PIPELINE_STEPS[i] : i \in 1..Len(PIPELINE_STEPS)}

\* Array.prototype.indexOf on the two step arrays (0-based, as in the code)
indexOf(arr, x) == (CHOOSE i \in 1..Len(arr) : arr[i] = x) - 1

\* arr[i] with the code's 0-based index
at(arr, i) == arr[i + 1]

StepResultDone(url) == [imageUrl |-> url, status |-> "done"]

StepResultSkipped == [imageUrl |-> 0, status |-> "skipped"]

INITIAL_STATE ==
  [ phase            |-> "config",
    configStep       |-> "topic",
    pipelineStep     |-> "baseScene",
    topic            |-> 0,
    style            |-> 0,
    tone             |-> 0,
    goal             |-> 0,
    caption          |-> 0,
    baseScenePrompt  |-> 0,
    stepResults      |-> << >>,
    showCanvasEditor |-> FALSE ]

VARIABLES
  state,        \* the reducer state (useReducer)
  isGenerating, \* useState flag set around every awaited call
  inflight,     \* the awaited call, if any, with the request it was built with
  last,         \* history: the operation that produced the current state
  wizard,       \* GuidedWizard: the component state of the batch run
  loop,         \* GuidedWizard: where the running generateBatch call stands
  calls,        \* GuidedWizard: the image calls that are awaited
  blast         \* GuidedWizard history: the last operation on the batch run

vars == <<state, isGenerating, inflight, last, wizard, loop, calls, blast>>

\* the variables of the guided wizard page
bvars == <<wizard, loop, calls, blast>>

\* the variables of the creative pipeline page
pvars == <<state, isGenerating, inflight, last>>

NoCall == [kind |-> "none", step |-> "baseScene", previousImageUrl |-> 0]

\* the session as the claims speak of it
Session(s) == [phase |-> s.phase, pipelineStep |-> s.pipelineStep, stepResults |-> s.stepResults]

\* a history entry: the operation, the step and artifact it was about, the
\* session it was applied to, and whether a session has been discarded before
Op(op, step, url) ==
  [op |-> op, step |-> step, imageUrl |-> url, pre |-> Session(state),
   afterReset |-> last.afterReset \/ op = "reset"]

\* ------------------------------------------------------------ pure helpers

\* mutant: the loop starts one step too late and keeps the target's result
invalidateFromStep_KeepTarget(results, fromStep) ==
  LET idx == indexOf(PIPELINE_STEPS, fromStep)
  IN  [k \in {s \in DOMAIN results : indexOf(PIPELINE_STEPS, s) < idx + 1} |-> results[k]]

\* mutant: the loop starts one step too early and also drops the result of
\* the step before the target
invalidateFromStep_OneTooMany(results, fromStep) ==
  LET idx == indexOf(PIPELINE_STEPS, fromStep)
  IN  [k \in {s \in DOMAIN results : indexOf(PIPELINE_STEPS, s) < idx - 1} |-> results[k]]

\* results without the entries of fromStep and of every later step
invalidateFromStep(results, fromStep) ==
  LET idx == indexOf(PIPELINE_STEPS, fromStep)
  IN  [k \in {s \in DOMAIN results : indexOf(PIPELINE_STEPS, s) < idx} |-> results[k]]

\* { ...results, [step]: r }
withResult(results, step, r) ==
  [k \in (DOMAIN results) \cup {step} |-> IF k = step THEN r ELSE results[k]]

RECURSIVE scanBackward(_, _)
\* the loop shared by getPreviousStepImage and getLatestImage: from index i
\* down to 0, the first result that is done with a non-empty imageUrl
scanBackward(results, i) ==
  IF i < 0 THEN 0
  ELSE LET step == at(PIPELINE_STEPS, i)
       IN  IF /\ step \in DOMAIN results
              /\ results[step].status = "done"
              /\ results[step].imageUrl # 0
           THEN results[step].imageUrl
           ELSE scanBackward(results, i - 1)

RECURSIVE scanForward(_, _, _)
scanForward(results, i, end) ==
  IF i > end THEN 0
  ELSE LET step == at(PIPELINE_STEPS, i)
       IN  IF /\ step \in DOMAIN results
              /\ results[step].status = "done"
              /\ results[step].imageUrl # 0
           THEN results[step].imageUrl
           ELSE scanForward(results, i + 1, end)

\* mutant: scans from the first stage up and returns the oldest Done artifact
getPreviousStepImage_Oldest(s) ==
  scanForward(s.stepResults, 0, indexOf(PIPELINE_STEPS, s.pipelineStep) - 1)

getPreviousStepImage(s) ==
  scanBackward(s.stepResults, indexOf(PIPELINE_STEPS, s.pipelineStep) - 1)

\* mutant: scans from the first stage up and returns the oldest Done artifact
getLatestImage_Oldest(s) ==
  scanForward(s.stepResults, 0, Len(PIPELINE_STEPS) - 1)

getLatestImage(s) ==
  scanBackward(s.stepResults, Len(PIPELINE_STEPS) - 1)

\* ----------------------------------------------------------------- reducer

ReduceNextConfigStep(s) ==
  LET idx == indexOf(CONFIG_STEPS, s.configStep)
  IN  IF idx < Len(CONFIG_STEPS) - 1
      THEN [s EXCEPT !.configStep = at(CONFIG_STEPS, idx + 1)]
      ELSE s

ReducePrevConfigStep(s) ==
  LET idx == indexOf(CONFIG_STEPS, s.configStep)
  IN  IF idx > 0
      THEN [s EXCEPT !.configStep = at(CONFIG_STEPS, idx - 1)]
      ELSE s

ReduceStartPipeline(s, caption) ==
  [s EXCEPT !.phase = "pipeline", !.pipelineStep = "baseScene", !.caption = caption]

\* the part COMPLETE_STEP and SKIP_STEP share: store the result, then move on
advanceWith(s, step, r) ==
  LET idx      == indexOf(PIPELINE_STEPS, step)
      isLast   == idx = Len(PIPELINE_STEPS) - 1
      nextStep == IF idx < Len(PIPELINE_STEPS) - 1
                  THEN at(PIPELINE_STEPS, idx + 1) ELSE step
  IN  [s EXCEPT !.stepResults  = withResult(s.stepResults, step, r),
                !.pipelineStep = IF isLast THEN step ELSE nextStep,
                !.phase        = IF isLast THEN "done" ELSE s.phase]

ReduceCompleteStep(s, step, url) == advanceWith(s, step, StepResultDone(url))

\* mutant: stores the Skipped result but forgets to move on
ReduceSkipStep_NoAdvance(s, step) ==
  [s EXCEPT !.stepResults = withResult(s.stepResults, step, StepResultSkipped)]

ReduceSkipStep(s, step) == advanceWith(s, step, StepResultSkipped)

\* mutant: moves the active step but keeps every result
ReduceGoToStep_NoInvalidate(s, step) ==
  [s EXCEPT !.pipelineStep = step, !.phase = "pipeline"]

\* mutant: moves the active step and invalidates, but leaves the phase alone
ReduceGoToStep_KeepPhase(s, step) ==
  [s EXCEPT !.pipelineStep = step,
            !.stepResults  = invalidateFromStep(s.stepResults, step)]

ReduceGoToStep(s, step) ==
  [s EXCEPT !.pipelineStep = step,
            !.stepResults  = invalidateFromStep(s.stepResults, step),
            !.phase        = "pipeline"]

\* mutant: finishing also records the active step as skipped
ReduceFinish_SkipsActive(s) ==
  [s EXCEPT !.phase = "done",
            !.stepResults = withResult(s.stepResults, s.pipelineStep, StepResultSkipped)]

ReduceFinish(s) == [s EXCEPT !.phase = "done"]

\* mutant: goes back to the configuration but keeps the results
ReduceReset_KeepsResults(s) == [INITIAL_STATE EXCEPT !.stepResults = s.stepResults]

\* mutant: clears the session but keeps the configuration values
ReduceReset_KeepsConfig(s) ==
  [INITIAL_STATE EXCEPT !.topic = s.topic, !.style = s.style, !.tone = s.tone,
                        !.goal = s.goal, !.caption = s.caption]

ReduceReset(s) == INITIAL_STATE

ReduceCanvasSave(s, url) ==
  [s EXCEPT !.stepResults      = withResult(s.stepResults, "typography", StepResultDone(url)),
            !.showCanvasEditor = FALSE,
            !.phase            = "done"]

reducer(s, a) ==
  CASE a.type = "SET_CONFIG"        -> [s EXCEPT ![a.field] = a.value]
    [] a.type = "NEXT_CONFIG_STEP"  -> ReduceNextConfigStep(s)
    [] a.type = "PREV_CONFIG_STEP"  -> ReducePrevConfigStep(s)
    [] a.type = "START_PIPELINE"    -> ReduceStartPipeline(s, a.caption)
    [] a.type = "SET_PROMPT"        -> [s EXCEPT !.baseScenePrompt = a.prompt]
    [] a.type = "COMPLETE_STEP"     -> ReduceCompleteStep(s, a.step, a.imageUrl)
    [] a.type = "SKIP_STEP"         -> ReduceSkipStep(s, a.step)
    [] a.type = "GO_TO_STEP"        -> ReduceGoToStep(s, a.step)
    [] a.type = "FINISH"            -> ReduceFinish(s)
    [] a.type = "RESET"             -> ReduceReset(s)
    [] a.type = "SET_CANVAS_EDITOR" -> [s EXCEPT !.showCanvasEditor = a.open]
    [] a.type = "CANVAS_SAVE"       -> ReduceCanvasSave(s, a.imageUrl)
    [] OTHER                        -> s

\* ------------------------------------------------- external collaborators

\* what generateCaption can hand back: a thrown error, the server's
\* { success: false, caption: "" }, or { success: true, caption } (trimmed
\* text, possibly empty)
CaptionResults ==
  {[kind |-> "throw", success |-> FALSE, caption |-> 0]}
    \cup {[kind |-> "result", success |-> FALSE, caption |-> 0]}
    \cup {[kind |-> "result", success |-> TRUE, caption |-> c] : c \in 0..1}

\* what a stage mutation can hand back: a thrown error, { success: false },
\* or { success: true, imageUrl } with a non-empty url; generateBaseScene
\* also returns the prompt it used
GeneratorResults(step) ==
  LET prompts == IF step = "baseScene" THEN 0..1 ELSE {0}
  IN  {[kind |-> "throw", success |-> FALSE, imageUrl |-> 0, prompt |-> 0]}
        \cup {[kind |-> "result", success |-> FALSE, imageUrl |-> 0, prompt |-> p] : p \in prompts}
        \cup {[kind |-> "result", success |-> TRUE, imageUrl |-> a, prompt |-> p] :
                a \in Artifacts, p \in prompts}

\* the Generator call failed: it threw or returned an unsuccessful result
GeneratorFailed(result) == result.kind = "throw" \/ ~result.success

\* ------------------------------------------------------------ what is shown

\* the canvas editor is rendered in every phase, as a full-screen overlay,
\* when it is open and a previous image for the typography step exists
CanvasVisible(s) ==
  /\ s.showCanvasEditor
  /\ getPreviousStepImage([s EXCEPT !.pipelineStep = "typography"]) # 0

ConfigShown(s) == s.phase = "config" /\ ~CanvasVisible(s)

PipelineShown(s) == s.phase = "pipeline" /\ ~CanvasVisible(s)

DoneShown(s) == s.phase = "done" /\ ~CanvasVisible(s)

\* status of a step in the step indicator
pipelineStepStatus(s, step) ==
  IF step = s.pipelineStep /\ s.phase = "pipeline" THEN "active"
  ELSE IF step \in DOMAIN s.stepResults /\ s.stepResults[step].status = "done" THEN "done"
  ELSE IF step \in DOMAIN s.stepResults /\ s.stepResults[step].status = "skipped" THEN "skipped"
  ELSE "pending"

\* the indicator's button of a step is disabled exactly when it is pending
StepButtonEnabled(s, step) == pipelineStepStatus(s, step) # "pending"

\* the "Refazer" button next to "Pular"
RedoButtonEnabled(s, generating) ==
  /\ s.pipelineStep # "baseScene"
  /\ s.pipelineStep \in DOMAIN s.stepResults
  /\ s.stepResults[s.pipelineStep].status = "done"
  /\ ~generating

\* mutant: the button is rendered for the first step too
SkipButtonEnabled_AnyStep(s, generating) == ~generating

\* the "Pular" button: rendered for every step but the first
SkipButtonEnabled(s, generating) == s.pipelineStep # "baseScene" /\ ~generating

\* the "Finalizar agora" button
FinishButtonEnabled(s, generating) == s.pipelineStep # "baseScene" /\ ~generating

\* ------------------------------------------------- guided wizard: state
\* GuidedWizard keeps the batch run in useState cells; generateBatch is an
\* async function whose awaits split it into steps.  Captions, prompts and
\* error messages are small naturals, 0 being the absent value.

STEPS ==
  <<"topic", "product", "platform", "aspect", "style", "tone", "goal",
    "textApproach", "batch", "result">>

\* mutant: the items are numbered from 1
BatchItemPending_OneBased(i) ==
  [index |-> i + 1, caption |-> i + 1, imagePrompt |-> i + 1, status |-> "pending",
   imageUrl |-> 0, error |-> 0]

\* the item generateBatch creates for the i-th post the server returned
BatchItemPending(i) ==
  [index |-> i, caption |-> i + 1, imagePrompt |-> i + 1, status |-> "pending",
   imageUrl |-> 0, error |-> 0]

\* the useState initial values
WIZARD_INITIAL ==
  [ step              |-> "topic",
    batchQuantity     |-> 1,
    batchResults      |-> << >>,
    currentBatchIndex |-> 0,
    isBatchGenerating |-> FALSE,
    batchCancelled    |-> FALSE ]

\* no generateBatch call is running; run counts the launches so far
LoopIdle(run) ==
  [pc |-> "idle", i |-> 0, n |-> 0, quantity |-> 0, cancelled |-> FALSE, run |-> run]

NoBatchOp ==
  [op |-> "init", index |-> 0, entered |-> << >>, toast |-> "none", exported |-> << >>]

Init ==
  /\ state = INITIAL_STATE
  /\ isGenerating = FALSE
  /\ inflight = NoCall
  /\ wizard = WIZARD_INITIAL
  /\ loop = LoopIdle(0)
  /\ calls = {}
  /\ blast = NoBatchOp
  /\ last = [op |-> "init", step |-> "baseScene", imageUrl |-> 0, pre |-> Session(INITIAL_STATE),
            afterReset |-> FALSE]

\* ------------------------------------------------------------------ actions

\* typing the topic (topic step), or picking style / tone / goal (settings)
SetConfig ==
  /\ ConfigShown(state)
  /\ \E field \in {"topic", "style", "tone", "goal"}, value \in 0..1 :
       /\ IF field = "topic" THEN state.configStep = "topic"
                             ELSE state.configStep = "settings" /\ value = 1
       /\ state' = reducer(state, [type |-> "SET_CONFIG", field |-> field, value |-> value])
  /\ last' = Op("setConfig", "baseScene", 0)
  /\ UNCHANGED <<isGenerating, inflight>>
  /\ UNCHANGED bvars

\* a template sets the style, tone and goal it carries
HandleLoadTemplate ==
  /\ ConfigShown(state)
  /\ state.configStep = "topic"
  /\ \E tpl \in [{"style", "tone", "goal"} -> 0..1] :
       LET s1 == IF tpl["style"] # 0
                 THEN reducer(state, [type |-> "SET_CONFIG", field |-> "style", value |-> tpl["style"]])
                 ELSE state
           s2 == IF tpl["tone"] # 0
                 THEN reducer(s1, [type |-> "SET_CONFIG", field |-> "tone", value |-> tpl["tone"]])
                 ELSE s1
           s3 == IF tpl["goal"] # 0
                 THEN reducer(s2, [type |-> "SET_CONFIG", field |-> "goal", value |-> tpl["goal"]])
                 ELSE s2
       IN  state' = s3
  /\ last' = Op("loadTemplate", "baseScene", 0)
  /\ UNCHANGED <<isGenerating, inflight>>
  /\ UNCHANGED bvars

\* handleConfigNext up to its await
HandleConfigNext ==
  /\ ConfigShown(state)
  /\ ~isGenerating
  /\ IF state.configStep = "topic" /\ state.topic = 0
     THEN /\ last' = Op("configRefused", "baseScene", 0)
          /\ UNCHANGED <<state, isGenerating, inflight>>
     ELSE IF state.configStep = "settings"
     THEN IF state.style = 0 \/ state.tone = 0 \/ state.goal = 0
          THEN /\ last' = Op("configRefused", "baseScene", 0)
               /\ UNCHANGED <<state, isGenerating, inflight>>
          ELSE /\ isGenerating' = TRUE
               /\ inflight' = [kind |-> "caption", step |-> "baseScene", previousImageUrl |-> 0]
               /\ last' = Op("captionCall", "baseScene", 0)
               /\ UNCHANGED state
     ELSE /\ state' = reducer(state, [type |-> "NEXT_CONFIG_STEP"])
          /\ last' = Op("configNext", "baseScene", 0)
          /\ UNCHANGED <<isGenerating, inflight>>
  /\ UNCHANGED bvars

\* handleConfigNext from its await on
CaptionResolve ==
  /\ inflight.kind = "caption"
  /\ \E result \in CaptionResults :
       IF result.kind = "throw"
       THEN /\ last' = Op("captionThrow", "baseScene", 0)
            /\ UNCHANGED state
       ELSE /\ state' = reducer(state, [type |-> "START_PIPELINE", caption |-> result.caption])
            /\ last' = Op(IF result.success THEN "start" ELSE "startAfterFailedCaption",
                          "baseScene", 0)
  /\ isGenerating' = FALSE
  /\ inflight' = NoCall
  /\ UNCHANGED bvars

HandleConfigBack ==
  /\ ConfigShown(state)
  /\ state.configStep # "topic"
  /\ state' = reducer(state, [type |-> "PREV_CONFIG_STEP"])
  /\ last' = Op("configBack", "baseScene", 0)
  /\ UNCHANGED <<isGenerating, inflight>>
  /\ UNCHANGED bvars

\* editing the prompt of the base scene
SetPrompt ==
  /\ PipelineShown(state)
  /\ state.pipelineStep = "baseScene"
  /\ \E prompt \in 0..1 :
       state' = reducer(state, [type |-> "SET_PROMPT", prompt |-> prompt])
  /\ last' = Op("setPrompt", "baseScene", 0)
  /\ UNCHANGED <<isGenerating, inflight>>
  /\ UNCHANGED bvars

\* mutant: any returned result counts, its success flag is not looked at
GeneratorSucceeded_IgnoresSuccess(result) == result.kind = "result"

\* the client's test of a stage mutation's result
GeneratorSucceeded(result) ==
  result.kind = "result" /\ result.success /\ result.imageUrl # 0

\* the else and catch branches of the stage handlers: a toast, no dispatch
onGenerateFailure(s) == s

\* the reference artifact a stage handler builds its request with; the
\* base scene has none
previousImageFor(s, step) ==
  IF step = "baseScene" THEN 0
  ELSE getPreviousStepImage([s EXCEPT !.pipelineStep = step])

\* handleGenerateBaseScene, handleRefineComposition, handleApplyColorGrading
\* and handleApplyTypographyAI up to their await; each is wired to the
\* controls of its own step, which are shown while that step is active
HandleGenerate(step) ==
  /\ PipelineShown(state)
  /\ state.pipelineStep = step
  /\ ~isGenerating
  /\ IF step # "baseScene" /\ previousImageFor(state, step) = 0
     THEN /\ last' = Op("generateRefused", step, 0)
          /\ UNCHANGED <<state, isGenerating, inflight>>
     ELSE /\ isGenerating' = TRUE
          /\ inflight' = [kind |-> "stage", step |-> step,
                          previousImageUrl |-> previousImageFor(state, step)]
          /\ last' = Op("generate", step, 0)
          /\ UNCHANGED state
  /\ UNCHANGED bvars

\* the stage handlers from their await on
GeneratorResolve ==
  /\ inflight.kind = "stage"
  /\ \E result \in GeneratorResults(inflight.step) :
       /\ IF GeneratorSucceeded(result)
          THEN LET s1 == reducer(state, [type |-> "COMPLETE_STEP", step |-> inflight.step,
                                         imageUrl |-> result.imageUrl])
               IN  state' = IF inflight.step = "baseScene" /\ result.prompt # 0
                            THEN reducer(s1, [type |-> "SET_PROMPT", prompt |-> result.prompt])
                            ELSE s1
          ELSE state' = onGenerateFailure(state)
       /\ last' = Op(IF GeneratorFailed(result) THEN "fail" ELSE "complete",
                     inflight.step, result.imageUrl)
  /\ isGenerating' = FALSE
  /\ inflight' = NoCall
  /\ UNCHANGED bvars

HandleSkipStep ==
  /\ PipelineShown(state)
  /\ SkipButtonEnabled(state, isGenerating)
  /\ state' = reducer(state, [type |-> "SKIP_STEP", step |-> state.pipelineStep])
  /\ last' = Op("skip", state.pipelineStep, 0)
  /\ UNCHANGED <<isGenerating, inflight>>
  /\ UNCHANGED bvars

\* a click on a step of the indicator, or on "Refazer" for the active step
HandleStepClick(step) ==
  /\ PipelineShown(state)
  /\ \/ StepButtonEnabled(state, step)
     \/ RedoButtonEnabled(state, isGenerating) /\ step = state.pipelineStep
  /\ state' = reducer(state, [type |-> "GO_TO_STEP", step |-> step])
  /\ last' = Op("goTo", step, 0)
  /\ UNCHANGED <<isGenerating, inflight>>
  /\ UNCHANGED bvars

FinishEarly ==
  /\ PipelineShown(state)
  /\ FinishButtonEnabled(state, isGenerating)
  /\ state' = reducer(state, [type |-> "FINISH"])
  /\ last' = Op("finish", state.pipelineStep, 0)
  /\ UNCHANGED <<isGenerating, inflight>>
  /\ UNCHANGED bvars

\* "Abrir Editor Canvas" of the typography controls
OpenCanvas ==
  /\ PipelineShown(state)
  /\ state.pipelineStep = "typography"
  /\ state' = reducer(state, [type |-> "SET_CANVAS_EDITOR", open |-> TRUE])
  /\ last' = Op("openCanvas", "typography", 0)
  /\ UNCHANGED <<isGenerating, inflight>>
  /\ UNCHANGED bvars

\* onSave of the canvas editor, with the data url of the composed image
CanvasSave ==
  /\ CanvasVisible(state)
  /\ \E url \in Artifacts :
       /\ state' = reducer(state, [type |-> "CANVAS_SAVE", imageUrl |-> url])
       /\ last' = Op("canvasSave", "typography", url)
  /\ UNCHANGED <<isGenerating, inflight>>
  /\ UNCHANGED bvars

\* onCancel of the canvas editor
CanvasCancel ==
  /\ CanvasVisible(state)
  /\ state' = reducer(state, [type |-> "SET_CANVAS_EDITOR", open |-> FALSE])
  /\ last' = Op("canvasCancel", "typography", 0)
  /\ UNCHANGED <<isGenerating, inflight>>
  /\ UNCHANGED bvars

\* "Criar Novo Post"
Reset ==
  /\ DoneShown(state)
  /\ state' = reducer(state, [type |-> "RESET"])
  /\ last' = Op("reset", "baseScene", 0)
  /\ UNCHANGED <<isGenerating, inflight>>
  /\ UNCHANGED bvars

\* "Salvar Post" of the done view: the post is saved with the latest image
\* as its image; the session is not touched
HandleSavePost ==
  /\ DoneShown(state)
  /\ last' = Op("savePost", state.pipelineStep, getLatestImage(state))
  /\ UNCHANGED <<state, isGenerating, inflight>>
  /\ UNCHANGED bvars

Generate == \E step \in Steps : HandleGenerate(step)

StepClick == \E step \in Steps : HandleStepClick(step)

Next ==
  \/ SetConfig
  \/ HandleLoadTemplate
  \/ HandleConfigNext
  \/ CaptionResolve
  \/ HandleConfigBack
  \/ SetPrompt
  \/ Generate
  \/ GeneratorResolve
  \/ HandleSkipStep
  \/ StepClick
  \/ FinishEarly
  \/ OpenCanvas
  \/ CanvasSave
  \/ CanvasCancel
  \/ Reset
  \/ HandleSavePost

Spec == Init /\ [][Next]_vars

\* ------------------------------------------------------------- vocabulary

NumStages == Len(PIPELINE_STEPS)

StageIndices == 0..(NumStages - 1)

activeStageIndex(s) == indexOf(PIPELINE_STEPS, s.pipelineStep)

HasResult(s, i) == at(PIPELINE_STEPS, i) \in DOMAIN s.stepResults

IsDone(s, i) == HasResult(s, i) /\ s.stepResults[at(PIPELINE_STEPS, i)].status = "done"

IsSkipped(s, i) == HasResult(s, i) /\ s.stepResults[at(PIPELINE_STEPS, i)].status = "skipped"

Running(s) == s.phase = "pipeline"

Finished(s) == s.phase = "done"

TypeOK ==
  /\ state.phase \in {"config", "pipeline", "done"}
  /\ state.pipelineStep \in Steps
  /\ DOMAIN state.stepResults \subseteq Steps
  /\ isGenerating \in BOOLEAN
  /\ inflight.kind \in {"none", "caption", "stage"}

imageUrlAt(s, i) == s.stepResults[at(PIPELINE_STEPS, i)].imageUrl

\* ------------------------------------------------------------------ claims

\* C1: in every reachable session, if stage i has a Done result then every
\* stage before i has a result (Done or Skipped).
C1_ChainGapFree ==
  \A i \in StageIndices :
    IsDone(state, i) => \A j \in 0..(i - 1) : HasResult(state, j)

\* C2: a goTo(j) applied to a session in which stages 0..k have results,
\* j <= k, leaves no result for any stage index >= j and makes j the
\* active stage index.
C2_InvalidationComplete ==
  [][\A j \in StageIndices :
       ( /\ last'.op = "goTo"
         /\ last'.step = at(PIPELINE_STEPS, j)
         /\ \E k \in j..(NumStages - 1) : \A i \in 0..k : HasResult(state, i) )
       => /\ \A i \in j..(NumStages - 1) : ~HasResult(state', i)
          /\ activeStageIndex(state') = j]_vars

\* C2 witness: a goTo(1) has just been applied to a session that had results
\* for the stages 0..2, and the results of the stages 1 and 2 are gone.
C2_Witness ==
  /\ last.op = "goTo"
  /\ last.step = "composition"
  /\ DOMAIN last.pre.stepResults = {"baseScene", "composition", "colorGrading"}
  /\ DOMAIN state.stepResults = {"baseScene"}
  /\ state.pipelineStep = "composition"

\* C3: in every Running session the active stage is the lowest-indexed stage
\* without a result.
C3_ActiveIsLowestWithoutResult ==
  Running(state) =>
    /\ \A i \in 0..(activeStageIndex(state) - 1) : HasResult(state, i)
    /\ ~HasResult(state, activeStageIndex(state))

\* C4: in no Running state does a result exist for a stage index greater
\* than or equal to the active stage index.
C4_NoResultAtOrAfterActive ==
  Running(state) =>
    \A i \in activeStageIndex(state)..(NumStages - 1) : ~HasResult(state, i)

\* C4 witness: a Generator call for a later stage has completed successfully
\* after a goTo moved the active stage before it, and the session is Running.
C4_Witness ==
  /\ last.op = "complete"
  /\ indexOf(PIPELINE_STEPS, last.pre.pipelineStep) < indexOf(PIPELINE_STEPS, last.step)
  /\ Running(last.pre)
  /\ Running(state)

\* url is the artifact of the nearest stage before index a whose outcome is
\* Done in session s
NearestPriorDone(s, a, url) ==
  \E i \in 0..(a - 1) :
    /\ IsDone(s, i)
    /\ imageUrlAt(s, i) = url
    /\ \A m \in (i + 1)..(a - 1) : ~IsDone(s, m)

\* C5: the reference artifact of the request built for the active stage is
\* the artifact of the nearest earlier stage whose outcome is Done, never an
\* older one and never empty.
C5_BackwardArtifactLookup ==
  (last.op = "generate" /\ last.step # "baseScene") =>
    /\ inflight.kind = "stage"
    /\ inflight.step = state.pipelineStep
    /\ inflight.previousImageUrl # 0
    /\ NearestPriorDone(state, activeStageIndex(state), inflight.previousImageUrl)

\* C5 witness: the request of the typography stage has been built with B
\* while the stages before it are Done(A), Skipped, Done(B), A # B.
C5_Witness ==
  /\ last.op = "generate"
  /\ last.step = "typography"
  /\ IsDone(state, 0) /\ IsSkipped(state, 1) /\ IsDone(state, 2)
  /\ imageUrlAt(state, 0) # imageUrlAt(state, 2)
  /\ inflight.previousImageUrl = imageUrlAt(state, 2)

\* C6 (as claimed): when the Generator call succeeds, a Done result with the
\* returned artifact is recorded at the active stage index; if that stage is
\* the last one the phase becomes Finished, otherwise the active stage index
\* advances by exactly one and the phase stays Running.
C6_SuccessRecordsAtActiveAndAdvances ==
  [][last'.op = "complete" =>
       LET a == activeStageIndex(state)
       IN  /\ IsDone(state', a)
           /\ imageUrlAt(state', a) = last'.imageUrl
           /\ IF a = NumStages - 1
              THEN Finished(state')
              ELSE activeStageIndex(state') = a + 1 /\ Running(state')]_vars

\* C7: a failed Generator call (thrown error or unsuccessful result) leaves
\* phase, active stage index and result map as they were: neither starting
\* the call nor its failure writes anything to the session.
C7_FailureLeavesSessionUnchanged ==
  [][(last'.op \in {"generate", "fail"}) => Session(state') = Session(state)]_vars

\* C7 witness: the call of the composition stage has failed in a Running
\* session that holds the base scene's result.
C7_Witness ==
  /\ last.op = "fail"
  /\ last.step = "composition"
  /\ Running(state)
  /\ state.pipelineStep = "composition"
  /\ IsDone(state, 0)
  /\ inflight = NoCall

\* C8: skip records a Skipped result with an empty artifact at the active
\* stage index and touches no other result, moves on as a successful stage
\* would (Finished after the last stage, else the next stage and Running),
\* and starts no Generator call.
C8_SkipRecordsAndAdvances ==
  [][last'.op = "skip" =>
       LET a == activeStageIndex(state)
       IN  /\ IsSkipped(state', a)
           /\ imageUrlAt(state', a) = 0
           /\ \A i \in StageIndices \ {a} :
                /\ HasResult(state', i) <=> HasResult(state, i)
                /\ HasResult(state, i) =>
                     state'.stepResults[at(PIPELINE_STEPS, i)] = state.stepResults[at(PIPELINE_STEPS, i)]
           /\ IF a = NumStages - 1
              THEN Finished(state') /\ activeStageIndex(state') = a
              ELSE activeStageIndex(state') = a + 1 /\ Running(state')
           /\ inflight.kind = "none"
           /\ inflight' = inflight
           /\ isGenerating' = isGenerating]_vars

\* C8 witness: the colour grading stage has just been skipped and the
\* typography stage is active.
C8_Witness ==
  /\ last.op = "skip"
  /\ last.step = "colorGrading"
  /\ IsSkipped(state, 2)
  /\ state.pipelineStep = "typography"
  /\ Running(state)
  /\ inflight = NoCall

\* C9: the first stage is never skipped: no skip is accepted while the active
\* stage index is 0, and the first stage never holds a Skipped result.
C9_FirstStageNeverSkipped ==
  [][/\ last'.op = "skip" => activeStageIndex(state) # 0
     /\ ~IsSkipped(state', 0)]_vars

\* C9 witness: a Running session has come back to the first stage from a
\* stage where skip was offered, and no call is in flight.
C9_Witness ==
  /\ last.op = "goTo"
  /\ last.pre.pipelineStep # "baseScene"
  /\ Running(state)
  /\ activeStageIndex(state) = 0
  /\ ~isGenerating

\* C10 (as claimed): no goTo with a target ahead of the active stage is
\* accepted, and the active stage index only moves forward through a
\* successful stage or a skip, one stage at a time.
C10_ForwardOnlyOneStageAtATime ==
  [][/\ last'.op = "goTo" =>
          indexOf(PIPELINE_STEPS, last'.step) <= activeStageIndex(state)
     /\ activeStageIndex(state') > activeStageIndex(state) =>
          /\ last'.op \in {"complete", "skip"}
          /\ activeStageIndex(state') = activeStageIndex(state) + 1]_vars

\* ------------------------------------------------- the reducer on its own
\* GO_TO_STEP as a function of the session it is applied to.  The page only
\* dispatches it from the pipeline phase; the reducer accepts it in the done
\* phase as well, and the sessions below cover both.

\* the result maps COMPLETE_STEP and SKIP_STEP build for the first k steps:
\* the first step is never skipped
ResultsOfFirst(k) ==
  {f \in [{at(PIPELINE_STEPS, i) : i \in 0..(k - 1)} ->
            {StepResultDone(a) : a \in Artifacts} \cup {StepResultSkipped}] :
     k > 0 => f["baseScene"].status = "done"}

\* a started session: running at step k with the steps before k recorded,
\* finished early at a step k > 0, or finished by its last step
StartedSessions ==
  LET started == [INITIAL_STATE EXCEPT !.phase = "pipeline", !.configStep = "settings",
                                       !.topic = 1, !.style = 1, !.tone = 1, !.goal = 1]
  IN  {[started EXCEPT !.phase = ph, !.pipelineStep = at(PIPELINE_STEPS, k),
                       !.stepResults = f, !.caption = c] :
         ph \in {"pipeline", "done"}, k \in StageIndices, c \in 0..1,
         f \in UNION {ResultsOfFirst(n) : n \in 0..Len(PIPELINE_STEPS)}}

GoToInputs ==
  {s \in StartedSessions :
     LET k == indexOf(PIPELINE_STEPS, s.pipelineStep)
         n == Cardinality(DOMAIN s.stepResults)
     IN  \/ s.phase = "pipeline" /\ n = k
         \/ s.phase = "done" /\ n = k /\ k > 0
         \/ s.phase = "done" /\ n = Len(PIPELINE_STEPS) /\ k = Len(PIPELINE_STEPS) - 1}

GoToInit ==
  /\ state \in GoToInputs
  /\ isGenerating = FALSE
  /\ inflight = NoCall
  /\ wizard = WIZARD_INITIAL
  /\ loop = LoopIdle(0)
  /\ calls = {}
  /\ blast = NoBatchOp
  /\ last = [op |-> "init", step |-> "baseScene", imageUrl |-> 0, pre |-> Session(state),
            afterReset |-> FALSE]

\* dispatch({ type: "GO_TO_STEP", step }) for a step that is active or has a
\* result
ApplyGoToStep(step) ==
  /\ step = state.pipelineStep \/ step \in DOMAIN state.stepResults
  /\ state' = reducer(state, [type |-> "GO_TO_STEP", step |-> step])
  /\ last' = Op("goTo", step, 0)
  /\ UNCHANGED <<isGenerating, inflight>>
  /\ UNCHANGED bvars

ApplyGoTo == \E step \in Steps : ApplyGoToStep(step)

SpecGoTo == GoToInit /\ [][ApplyGoTo]_vars

\* the result of stage i, or "none"
resultAt(s, i) ==
  IF HasResult(s, i) THEN s.stepResults[at(PIPELINE_STEPS, i)] ELSE [status |-> "none"]

\* C11: goTo always yields phase Running, also from a Finished session;
\* goTo(j) applied again to the session goTo(j) produced changes nothing; and
\* a goTo whose target is the active stage leaves the results of the earlier
\* stages as they were.
C11_GoToIdempotentAndRunning ==
  [][last'.op = "goTo" =>
       /\ Running(state')
       /\ (last.op = "goTo" /\ last.step = last'.step) => state' = state
       /\ last'.step = state.pipelineStep =>
            \A i \in 0..(activeStageIndex(state) - 1) :
              resultAt(state', i) = resultAt(state, i)]_vars

\* C11 witness: a goTo has been applied to a Finished session that held
\* results for all four stages, and the session is Running.
C11_Witness ==
  /\ last.op = "goTo"
  /\ Finished(last.pre)
  /\ Cardinality(DOMAIN last.pre.stepResults) = NumStages
  /\ Running(state)

\* the configuration context of the session
Context(s) ==
  [topic |-> s.topic, style |-> s.style, tone |-> s.tone, goal |-> s.goal,
   caption |-> s.caption, baseScenePrompt |-> s.baseScenePrompt,
   configStep |-> s.configStep]

\* C12: goTo(j) leaves the result of every stage with index < j exactly as it
\* was and changes nothing of the configuration context; applied to a session
\* with results for all stages, goTo(1) keeps the first stage's artifact and
\* removes the results of the stages 1, 2 and 3.
C12_GoToFrame ==
  [][last'.op = "goTo" =>
       LET j == indexOf(PIPELINE_STEPS, last'.step)
       IN  /\ \A i \in 0..(j - 1) : resultAt(state', i) = resultAt(state, i)
           /\ \A i \in j..(NumStages - 1) : ~HasResult(state', i)
           /\ Context(state') = Context(state)
           /\ activeStageIndex(state') = j]_vars

\* C12 witness: the backtrack scenario: goTo(1) applied to the Finished
\* session Done, Done, Skipped, Done leaves only the first stage's artifact,
\* with stage 1 active and the phase Running.
C12_Witness ==
  /\ last.op = "goTo"
  /\ last.step = "composition"
  /\ Finished(last.pre)
  /\ IsDone(last.pre, 0) /\ IsDone(last.pre, 1) /\ IsSkipped(last.pre, 2) /\ IsDone(last.pre, 3)
  /\ DOMAIN state.stepResults = {"baseScene"}
  /\ state.stepResults["baseScene"] = last.pre.stepResults["baseScene"]
  /\ activeStageIndex(state) = 1
  /\ Running(state)

\* --------------------------------------------------- claims on the page, 2

\* C13: finishEarly is accepted only while the phase is Running; it sets the
\* phase to Finished and leaves the result map and the active stage index
\* unchanged, so stages never attempted stay absent.
C13_FinishEarlyOnlyMarksFinished ==
  [][last'.op = "finish" =>
       /\ Running(state)
       /\ Finished(state')
       /\ state'.stepResults = state.stepResults
       /\ state'.pipelineStep = state.pipelineStep]_vars

\* C13 witness: the session was finished early at the composition stage; only
\* the base scene has a result.
C13_Witness ==
  /\ last.op = "finish"
  /\ Running(last.pre)
  /\ Finished(state)
  /\ activeStageIndex(state) = 1
  /\ DOMAIN state.stepResults = {"baseScene"}

\* url is the artifact of the highest-indexed stage whose outcome is Done in
\* session s
HighestDone(s, url) ==
  \E i \in StageIndices :
    /\ IsDone(s, i)
    /\ imageUrlAt(s, i) = url
    /\ \A m \in (i + 1)..(NumStages - 1) : ~IsDone(s, m)

\* C14: the output of the pipeline (the image a Finished session is saved
\* with) is the artifact of the highest-indexed stage whose outcome is Done,
\* never that of a Skipped or absent stage; it is empty only when no stage is
\* Done.
C14_OutputIsLatestDone ==
  last.op = "savePost" =>
    /\ Finished(state)
    /\ IF \E i \in StageIndices : IsDone(state, i)
       THEN last.imageUrl # 0 /\ HighestDone(state, last.imageUrl)
       ELSE last.imageUrl = 0

\* C14 witness: the happy path: Done, Done, Skipped, Done, phase Finished, and
\* the output is the last stage's artifact, which differs from the earlier
\* ones.
C14_Witness ==
  /\ last.op = "savePost"
  /\ Finished(state)
  /\ IsDone(state, 0) /\ IsDone(state, 1) /\ IsSkipped(state, 2) /\ IsDone(state, 3)
  /\ imageUrlAt(state, 3) # imageUrlAt(state, 0)
  /\ imageUrlAt(state, 3) # imageUrlAt(state, 1)
  /\ last.imageUrl = imageUrlAt(state, 3)

\* C15: start always produces a session with active stage index 0, phase
\* Running and an empty result map, whatever happened in earlier sessions,
\* and it starts no Generator call.
C15_StartGivesFreshSession ==
  (last.op \in {"start", "startAfterFailedCaption"}) =>
    /\ activeStageIndex(state) = 0
    /\ Running(state)
    /\ DOMAIN state.stepResults = {}
    /\ inflight.kind = "none"
    /\ ~isGenerating

\* C15 witness: a session has been started after an earlier one was
\* discarded.
C15_Witness ==
  /\ last.op = "start"
  /\ last.afterReset
  /\ Running(state)
  /\ activeStageIndex(state) = 0

\* C16 (as claimed): start happens only when the configuration is complete
\* (topic, style, tone and goal all set) and a caption has been generated;
\* when caption generation fails, the session stays in Configuring and no
\* pipeline session is started.
C16_StartNeedsConfigAndCaption ==
  /\ (last.op \in {"captionThrow", "startAfterFailedCaption"}) => state.phase = "config"
  /\ Running(state) =>
       /\ state.topic # 0 /\ state.style # 0 /\ state.tone # 0 /\ state.goal # 0
       /\ state.caption # 0

\* C17: reset discards the whole session: afterwards the phase is Configuring,
\* the result map is empty, the active stage is the first stage, and no
\* artifact or configuration value of the discarded session remains.
C17_ResetDiscardsSession ==
  last.op = "reset" =>
    /\ state.phase = "config"
    /\ state.configStep = "topic"
    /\ DOMAIN state.stepResults = {}
    /\ activeStageIndex(state) = 0
    /\ getLatestImage(state) = 0
    /\ Context(state) = Context(INITIAL_STATE)
    /\ ~state.showCanvasEditor

\* C17 witness: a Finished session that held a configuration and a Done
\* result has just been reset.
C17_Witness ==
  /\ last.op = "reset"
  /\ Finished(last.pre)
  /\ \E i \in StageIndices : IsDone(last.pre, i)
  /\ state = INITIAL_STATE

\* ----------------------------------------------- guided wizard: batch run

\* what generateBatchPosts can hand back for a quantity q: a thrown error,
\* { success: false, items: [] }, or { success: true, items } with q items
PostsResults(q) ==
  {[kind |-> "throw", success |-> FALSE, n |-> 0],
   [kind |-> "result", success |-> FALSE, n |-> 0],
   [kind |-> "result", success |-> TRUE, n |-> q]}

\* what generateImageFromPrompt can hand back: a thrown error (with its
\* message), { success: false }, or { success: true, imageUrl }
ImageResults ==
  {[kind |-> "throw", success |-> FALSE, imageUrl |-> 0],
   [kind |-> "result", success |-> FALSE, imageUrl |-> 0]}
    \cup {[kind |-> "result", success |-> TRUE, imageUrl |-> a] : a \in Artifacts}

\* the client's test of an image result
ImageSucceeded(r) == r.kind = "result" /\ r.success /\ r.imageUrl # 0

\* mutant: a failed image call stores no error text
ErrorDetail_Empty(r) == 0

\* the error text stored for a failed image call: the fixed text of the else
\* branch, or the message of the thrown error (a transport or validation
\* error of the client, which carries a message); a non-empty string either
\* way
ErrorDetail(r) == IF r.kind = "throw" \/ ~r.success THEN 1 ELSE 0

\* generateImageMutation.isPending: the mutation observer follows the call
\* made last
ImagePending == \E c \in calls : c.latest

\* generateImageMutation.mutateAsync: the new call becomes the one observed
withCall(cs, kind, index, run) ==
  {[c EXCEPT !.latest = FALSE] : c \in cs}
    \cup {[kind |-> kind, index |-> index, run |-> run, latest |-> TRUE]}

\* setBatchResults(prev => prev.map((item, idx) => idx === i ? f(item) : item))
mapItem(results, i, status, url, err) ==
  [k \in 1..Len(results) |->
     IF k = i + 1
     THEN [results[k] EXCEPT !.status = status, !.imageUrl = url, !.error = err]
     ELSE results[k]]

\* mutant: a failure of item i is recorded on item i and on every item after it
loopItemAfter_FailsRest(results, i, r) ==
  IF i + 1 \in 1..Len(results)
  THEN IF ImageSucceeded(r)
       THEN mapItem(results, i, "done", r.imageUrl, results[i + 1].error)
       ELSE [k \in 1..Len(results) |->
               IF k >= i + 1
               THEN [results[k] EXCEPT !.status = "error", !.error = ErrorDetail(r)]
               ELSE results[k]]
  ELSE results

\* mutant: a failed item is put back to pending, to be generated again later
loopItemAfter_FailureToPending(results, i, r) ==
  IF i + 1 \in 1..Len(results)
  THEN IF ImageSucceeded(r)
       THEN mapItem(results, i, "done", r.imageUrl, results[i + 1].error)
       ELSE mapItem(results, i, "pending", results[i + 1].imageUrl, ErrorDetail(r))
  ELSE results

\* the update of item i after its image call came back, in the run loop: the
\* success branch leaves the error field alone, the failure branches leave
\* the image alone
loopItemAfter(results, i, r) ==
  IF i + 1 \in 1..Len(results)
  THEN IF ImageSucceeded(r)
       THEN mapItem(results, i, "done", r.imageUrl, results[i + 1].error)
       ELSE mapItem(results, i, "error", results[i + 1].imageUrl, ErrorDetail(r))
  ELSE results

\* mutant: a successful retry leaves the old error detail on the item
retryItemAfter_KeepsError(results, i, r) ==
  IF i + 1 \in 1..Len(results)
  THEN IF ImageSucceeded(r)
       THEN mapItem(results, i, "done", r.imageUrl, results[i + 1].error)
       ELSE mapItem(results, i, "error", results[i + 1].imageUrl, ErrorDetail(r))
  ELSE results

\* the update of item i after a retry's image call came back: success clears
\* the error field
retryItemAfter(results, i, r) ==
  IF i + 1 \in 1..Len(results)
  THEN IF ImageSucceeded(r)
       THEN mapItem(results, i, "done", r.imageUrl, 0)
       ELSE mapItem(results, i, "error", results[i + 1].imageUrl, ErrorDetail(r))
  ELSE results

\* a history entry of the batch run; toast is what the callbacks of the image
\* mutation showed in the step, "none" when no image call came back in it;
\* exported holds the indices of the items a download of all images took
BOp(op, index, entered) ==
  [op |-> op, index |-> index, entered |-> entered, toast |-> "none", exported |-> << >>]

\* the onSuccess / onError callbacks of generateImageMutation, which run for
\* every call of the mutation: a success toast for an image, an error toast
\* for an unsuccessful result or a thrown error
imageToast(r) == IF ImageSucceeded(r) THEN "success" ELSE "error"

\* the history entry of a step in which an image call came back with r
BOpImage(op, index, entered, r) ==
  [BOp(op, index, entered) EXCEPT !.toast = imageToast(r)]

\* mutant: generateBatch returns without clearing the generating flag
loopFinished_KeepsFlag(w, lp, cs, entered) ==
  [wizard  |-> w,
   loop    |-> LoopIdle(lp.run),
   calls   |-> cs,
   entered |-> entered]

\* the end of generateBatch: setIsBatchGenerating(false)
loopFinished(w, lp, cs, entered) ==
  [wizard  |-> [w EXCEPT !.isBatchGenerating = FALSE],
   loop    |-> LoopIdle(lp.run),
   calls   |-> cs,
   entered |-> entered]

\* mutant: the loop body works on the item after the one its turn it is
loopTop_OffByOne(w, lp, cs, i, entered) ==
  IF i >= lp.n \/ lp.cancelled
  THEN loopFinished(w, lp, cs, entered)
  ELSE LET j == IF i + 1 < lp.n THEN i + 1 ELSE i
       IN  [wizard  |-> [w EXCEPT !.currentBatchIndex = j,
                                  !.batchResults = mapItem(w.batchResults, j, "generating",
                                                           w.batchResults[j + 1].imageUrl,
                                                           w.batchResults[j + 1].error)],
            loop    |-> [lp EXCEPT !.pc = "image", !.i = i],
            calls   |-> withCall(cs, "loop", j, lp.run),
            entered |-> Append(entered, j)]

\* the run loop from the top of iteration i to its await: leave when all
\* items are processed or the captured cancelled flag is set, else make i the
\* current index, mark item i as generating and call the image mutation
loopTop(w, lp, cs, i, entered) ==
  IF i >= lp.n \/ lp.cancelled
  THEN loopFinished(w, lp, cs, entered)
  ELSE [wizard  |-> [w EXCEPT !.currentBatchIndex = i,
                              !.batchResults = mapItem(w.batchResults, i, "generating",
                                                       w.batchResults[i + 1].imageUrl,
                                                       w.batchResults[i + 1].error)],
        loop    |-> [lp EXCEPT !.pc = "image", !.i = i],
        calls   |-> withCall(cs, "loop", i, lp.run),
        entered |-> Append(entered, i)]

\* handleNext on a step before the batch step: refuse when the step's input
\* is missing, else go to the next step
WizardNext ==
  /\ wizard.step \notin {"batch", "result"}
  /\ ~wizard.isBatchGenerating
  /\ loop.pc # "posts"
  /\ \E inputOk \in BOOLEAN :
       /\ inputOk \/ wizard.step # "product"
       /\ IF inputOk
          THEN wizard' = [wizard EXCEPT !.step = at(STEPS, indexOf(STEPS, wizard.step) + 1)]
          ELSE wizard' = wizard
  /\ UNCHANGED <<loop, calls, blast>>
  /\ UNCHANGED pvars

\* handleBack
WizardBack ==
  /\ wizard.step \notin {"topic", "result"}
  /\ ~wizard.isBatchGenerating
  /\ wizard' = [wizard EXCEPT !.step = at(STEPS, indexOf(STEPS, wizard.step) - 1)]
  /\ UNCHANGED <<loop, calls, blast>>
  /\ UNCHANGED pvars

\* the quantity slider of the batch step
SetBatchQuantity ==
  /\ wizard.step = "batch"
  /\ \E q \in 1..MaxQuantity :
       wizard' = [wizard EXCEPT !.batchQuantity = q]
  /\ UNCHANGED <<loop, calls, blast>>
  /\ UNCHANGED pvars

\* handleNext on the batch step: generateBatch up to its first await.  The
\* cancelled flag the loop will read is the one of this render.
Launch ==
  /\ wizard.step = "batch"
  /\ ~wizard.isBatchGenerating
  /\ loop.pc = "idle"
  /\ loop.run < MaxRuns
  /\ wizard' = [wizard EXCEPT !.isBatchGenerating = TRUE,
                              !.batchCancelled = FALSE,
                              !.step = "result"]
  /\ loop' = [pc |-> "posts", i |-> 0, n |-> 0, quantity |-> wizard.batchQuantity,
              cancelled |-> wizard.batchCancelled, run |-> loop.run + 1]
  /\ blast' = BOp("launch", 0, << >>)
  /\ UNCHANGED calls
  /\ UNCHANGED pvars

\* generateBatch from the await of generateBatchPosts to the next await
PostsResolve ==
  /\ loop.pc = "posts"
  /\ \E r \in PostsResults(loop.quantity) :
       IF r.kind = "throw" \/ ~r.success
       THEN /\ wizard' = [wizard EXCEPT !.isBatchGenerating = FALSE]
            /\ loop' = LoopIdle(loop.run)
            /\ blast' = BOp(IF r.kind = "throw" THEN "postsThrow" ELSE "postsFailed",
                            0, blast.entered)
            /\ UNCHANGED calls
       ELSE LET items == [k \in 1..r.n |-> BatchItemPending(k - 1)]
                nxt   == loopTop([wizard EXCEPT !.batchResults = items],
                                 [loop EXCEPT !.n = r.n], calls, 0, << >>)
            IN  /\ wizard' = nxt.wizard
                /\ loop' = nxt.loop
                /\ calls' = nxt.calls
                /\ blast' = BOp("items", 0, nxt.entered)
  /\ UNCHANGED pvars

\* generateBatch from the await of the image call of item i to the next
\* await: record the outcome, then wait before the next item, or go on
ImageResolve ==
  /\ loop.pc = "image"
  /\ \E c \in calls, r \in ImageResults :
       /\ c.kind = "loop"
       /\ c.run = loop.run
       /\ LET w1 == [wizard EXCEPT !.batchResults = loopItemAfter(wizard.batchResults, c.index, r)]
              cs == calls \ {c}
          IN  IF loop.i < loop.n - 1 /\ ~loop.cancelled
              THEN /\ wizard' = w1
                   /\ loop' = [loop EXCEPT !.pc = "delay"]
                   /\ calls' = cs
                   /\ blast' = BOpImage(IF ImageSucceeded(r) THEN "jobDone" ELSE "jobError",
                                        c.index, blast.entered, r)
              ELSE LET nxt == loopTop(w1, loop, cs, loop.i + 1, blast.entered)
                   IN  /\ wizard' = nxt.wizard
                       /\ loop' = nxt.loop
                       /\ calls' = nxt.calls
                       /\ blast' = BOpImage(IF ImageSucceeded(r) THEN "jobDone" ELSE "jobError",
                                            c.index, nxt.entered, r)
  /\ UNCHANGED pvars

\* generateBatch from the end of the delay to the next await
DelayDone ==
  /\ loop.pc = "delay"
  /\ LET nxt == loopTop(wizard, loop, calls, loop.i + 1, blast.entered)
     IN  /\ wizard' = nxt.wizard
         /\ loop' = nxt.loop
         /\ calls' = nxt.calls
         /\ blast' = BOp("delayDone", loop.i + 1, nxt.entered)
  /\ UNCHANGED pvars

\* mutant: cancel also gives up the job being generated, marking it as failed
HandleCancelBatch_AbortsJob ==
  /\ wizard.step = "result"
  /\ wizard.isBatchGenerating
  /\ Len(wizard.batchResults) > 0
  /\ wizard' = [wizard EXCEPT !.batchCancelled = TRUE,
                              !.batchResults =
                                 [k \in 1..Len(wizard.batchResults) |->
                                    IF wizard.batchResults[k].status = "generating"
                                    THEN [wizard.batchResults[k] EXCEPT !.status = "error"]
                                    ELSE wizard.batchResults[k]]]
  /\ blast' = BOp("cancel", wizard.currentBatchIndex, blast.entered)
  /\ UNCHANGED <<loop, calls>>
  /\ UNCHANGED pvars

\* the "Cancelar" button, shown while the batch is generating and has items
HandleCancelBatch ==
  /\ wizard.step = "result"
  /\ wizard.isBatchGenerating
  /\ Len(wizard.batchResults) > 0
  /\ wizard' = [wizard EXCEPT !.batchCancelled = TRUE]
  /\ blast' = BOp("cancel", wizard.currentBatchIndex, blast.entered)
  /\ UNCHANGED <<loop, calls>>
  /\ UNCHANGED pvars

\* mutant: the retry button is rendered for every item, whatever its status
RetryButtonEnabled_AnyStatus(w, index) ==
  /\ w.step = "result"
  /\ ~w.isBatchGenerating
  /\ index + 1 \in 1..Len(w.batchResults)
  /\ ~ImagePending

\* the "Tentar novamente" button of an item: rendered for an item in error
\* once the batch is no longer generating, disabled while the image
\* mutation is pending
RetryButtonEnabled(w, index) ==
  /\ w.step = "result"
  /\ ~w.isBatchGenerating
  /\ index + 1 \in 1..Len(w.batchResults)
  /\ w.batchResults[index + 1].status = "error"
  /\ ~ImagePending

\* handleRetryItem up to its await
HandleRetryItem(index) ==
  /\ RetryButtonEnabled(wizard, index)
  /\ wizard' = [wizard EXCEPT !.batchResults =
                  mapItem(wizard.batchResults, index, "generating",
                          wizard.batchResults[index + 1].imageUrl,
                          wizard.batchResults[index + 1].error)]
  /\ calls' = withCall(calls, "retry", index, loop.run)
  /\ blast' = BOp("retry", index, blast.entered)
  /\ UNCHANGED loop
  /\ UNCHANGED pvars

\* handleRetryItem from its await on
RetryResolve ==
  /\ \E c \in calls, r \in ImageResults :
       /\ c.kind = "retry"
       /\ wizard' = [wizard EXCEPT !.batchResults = retryItemAfter(wizard.batchResults, c.index, r)]
       /\ calls' = calls \ {c}
       /\ blast' = BOpImage(IF ImageSucceeded(r) THEN "retryDone" ELSE "retryError",
                            c.index, blast.entered, r)
  /\ UNCHANGED loop
  /\ UNCHANGED pvars

\* handleReset, behind "Criar Novo Post"
HandleReset ==
  /\ wizard.step = "result"
  /\ ~wizard.isBatchGenerating
  /\ wizard' = WIZARD_INITIAL
  /\ blast' = BOp("reset", 0, << >>)
  /\ UNCHANGED <<loop, calls>>
  /\ UNCHANGED pvars

RetryItem == \E index \in 0..(MaxQuantity - 1) : HandleRetryItem(index)

\* mutant: the download takes every item that did not fail
successfulItems_NotFailed(results) ==
  SelectSeq(results, LAMBDA item : item.status # "error")

\* handleDownloadAll's filter: the items that are done and have an image, in
\* the order of the list
successfulItems(results) ==
  SelectSeq(results, LAMBDA item : item.status = "done" /\ item.imageUrl # 0)

\* the "Baixar Todas" button: in the results grid, when more than one item is
\* done
DownloadAllButtonShown(w) ==
  /\ w.step = "result"
  /\ ~w.isBatchGenerating
  /\ Cardinality({k \in 1..Len(w.batchResults) : w.batchResults[k].status = "done"}) > 1

\* handleDownloadAll: the items to download are fixed when the handler
\* starts; the downloads change nothing of the batch state
HandleDownloadAll ==
  /\ DownloadAllButtonShown(wizard)
  /\ LET items == successfulItems(wizard.batchResults)
     IN  /\ Len(items) # 0
         /\ blast' = [BOp("downloadAll", 0, blast.entered) EXCEPT
                        !.exported = [k \in 1..Len(items) |-> items[k].index]]
  /\ UNCHANGED <<wizard, loop, calls>>
  /\ UNCHANGED pvars

\* the text overlay button of an item that is done and has an image, in the
\* results grid
TextOverlayButtonShown(w, index) ==
  /\ w.step = "result"
  /\ ~w.isBatchGenerating
  /\ index + 1 \in 1..Len(w.batchResults)
  /\ w.batchResults[index + 1].status = "done"
  /\ w.batchResults[index + 1].imageUrl # 0

\* handleOpenTextOverlay and, from the editor that covers the page,
\* handleSaveTextOverlay: the item's image is replaced by the edited one
HandleSaveTextOverlay(index) ==
  /\ TextOverlayButtonShown(wizard, index)
  /\ \E dataUrl \in Artifacts :
       wizard' = [wizard EXCEPT !.batchResults =
                    mapItem(wizard.batchResults, index, wizard.batchResults[index + 1].status,
                            dataUrl, wizard.batchResults[index + 1].error)]
  /\ blast' = BOp("overlay", index, blast.entered)
  /\ UNCHANGED <<loop, calls>>
  /\ UNCHANGED pvars

SaveTextOverlay == \E index \in 0..(MaxQuantity - 1) : HandleSaveTextOverlay(index)

BatchNext ==
  \/ WizardNext
  \/ WizardBack
  \/ SetBatchQuantity
  \/ Launch
  \/ PostsResolve
  \/ ImageResolve
  \/ DelayDone
  \/ HandleCancelBatch
  \/ RetryItem
  \/ RetryResolve
  \/ HandleReset
  \/ HandleDownloadAll
  \/ SaveTextOverlay

SpecBatch == Init /\ [][BatchNext]_vars

\* ------------------------------------------------ claims on the batch run

\* the image calls awaited, without the observer's flag
CallIds(cs) == {[kind |-> c.kind, index |-> c.index, run |-> c.run] : c \in cs}

\* the awaited image calls whose outcome will be written to a job of the
\* batch run held in w: the handlers address the job by its index alone
CallsOnRun(cs, w) == {c \in CallIds(cs) : c.index + 1 \in 1..Len(w.batchResults)}

\* C18 (as claimed): at no time are two Generator calls in flight for the
\* same pipeline session or for the same batch run: a stage call, a batch job
\* call or a retry call starts only when no other Generator call of that
\* session or run is outstanding.
C18_NoOverlappingGeneratorCalls ==
  [][/\ (last'.op = "generate" /\ inflight'.kind = "stage") => inflight.kind = "none"
     /\ CallIds(calls') \ CallIds(calls) # {} => CallsOnRun(calls, wizard') = {}
     /\ Cardinality(CallsOnRun(calls', wizard')) <= 1]_vars

JobIndices == 0..(MaxQuantity - 1)

HasJob(w, i) == i + 1 \in 1..Len(w.batchResults)

jobStatus(w, i) == IF HasJob(w, i) THEN w.batchResults[i + 1].status ELSE "none"

Terminal(w, i) == jobStatus(w, i) \in {"done", "error"}

\* C19: batch ordering: in every launched batch the run loop lets the jobs
\* enter Generating in strictly ascending index order, starting with job 0
\* and leaving none out, and whenever a job i enters Generating, by the run
\* loop or by a retry, every job before it has a terminal status.
C19_BatchOrdering ==
  [][\A i \in JobIndices :
       (jobStatus(wizard', i) = "generating" /\ jobStatus(wizard, i) # "generating") =>
         /\ \A j \in 0..(i - 1) : Terminal(wizard', j)
         /\ blast'.op # "retry" =>
              /\ Len(blast'.entered) = i + 1
              /\ \A k \in 1..(i + 1) : blast'.entered[k] = k - 1]_vars

\* C19 witness: job 2 has entered Generating after job 0 ended Done and job 1
\* ended Error.
C19_Witness ==
  /\ blast.entered = <<0, 1, 2>>
  /\ jobStatus(wizard, 0) = "done"
  /\ jobStatus(wizard, 1) = "error"
  /\ jobStatus(wizard, 2) = "generating"
  /\ wizard.isBatchGenerating

\* C20: partial-failure isolation: a failed image call of job i in the run
\* loop (thrown error or unsuccessful result) is recorded as status Error with
\* an error detail on job i, leaves every other job as it was and does not
\* end the run while jobs remain; and when the run loop has ended after its
\* last job, every job has a terminal status.
C20_PartialFailureIsolation ==
  [][/\ blast'.op = "jobError" =>
          LET i == blast'.index
          IN  /\ jobStatus(wizard', i) = "error"
              /\ wizard'.batchResults[i + 1].error # 0
              /\ Len(wizard'.batchResults) = Len(wizard.batchResults)
              /\ \A j \in JobIndices \ {i} :
                   HasJob(wizard, j) => wizard'.batchResults[j + 1] = wizard.batchResults[j + 1]
              /\ i < loop.n - 1 => wizard'.isBatchGenerating /\ loop'.pc = "delay"
     /\ (blast'.op \in {"jobDone", "jobError"} /\ ~wizard'.isBatchGenerating) =>
          /\ Len(wizard'.batchResults) = loop.n
          /\ \A j \in JobIndices : HasJob(wizard', j) => Terminal(wizard', j)]_vars

\* C20 witness: a run of three jobs has ended with the statuses Done, Error,
\* Done, job 1 holding an error detail and no artifact.
C20_Witness ==
  /\ blast.op = "jobDone"
  /\ blast.index = 2
  /\ ~wizard.isBatchGenerating
  /\ Len(wizard.batchResults) = 3
  /\ jobStatus(wizard, 0) = "done"
  /\ jobStatus(wizard, 1) = "error"
  /\ jobStatus(wizard, 2) = "done"
  /\ wizard.batchResults[2].error # 0
  /\ wizard.batchResults[2].imageUrl = 0

\* a job that the step puts into Generating: by the run loop, or by a retry
EntersGenerating(i) ==
  jobStatus(wizard', i) = "generating" /\ jobStatus(wizard, i) # "generating"

\* C21 (as claimed): cancellation boundary: once cancel has been called in a
\* run, the run loop puts no further job into Generating: when cancel comes
\* between the end of job i and the start of job i+1, jobs 0..i are terminal
\* and jobs i+1..end stay Pending.
C21_CancellationBoundary ==
  [][\A i \in JobIndices :
       (EntersGenerating(i) /\ blast'.op # "retry") =>
         /\ ~wizard.batchCancelled
         /\ blast.op # "cancel"]_vars

\* the outcome of an image call is on record in job i: Done with an artifact,
\* or Error with an error detail
Recorded(w, i) ==
  \/ jobStatus(w, i) = "done" /\ w.batchResults[i + 1].imageUrl # 0
  \/ jobStatus(w, i) = "error" /\ w.batchResults[i + 1].error # 0

\* C22: cancel never loses or alters a result: the call of cancel leaves every
\* job as it was, the job that is Generating when cancel is called still ends
\* in Done or Error with its outcome recorded, and no job is left in
\* Generating when the run stops.
C22_CancelKeepsResults ==
  [][/\ blast'.op = "cancel" =>
          /\ wizard'.batchResults = wizard.batchResults
          /\ UNCHANGED <<loop, calls>>
     /\ (wizard.batchCancelled /\ blast'.op \in {"jobDone", "jobError"}) =>
          Recorded(wizard', blast'.index)
     /\ (wizard.isBatchGenerating /\ ~wizard'.isBatchGenerating) =>
          \A j \in JobIndices : jobStatus(wizard', j) # "generating"]_vars

\* C22 witness: cancel was called while job 0 was being generated, and job 0
\* has ended Done with its artifact.
C22_Witness ==
  /\ wizard.batchCancelled
  /\ blast.op = "jobDone"
  /\ blast.index = 0
  /\ blast.entered = <<0>>
  /\ jobStatus(wizard, 0) = "done"
  /\ wizard.batchResults[1].imageUrl # 0

\* the image calls that came back in the step
CallsResolved == CallIds(calls) \ CallIds(calls')

\* C23 (as claimed): retry isolation: the start and the completion of a retry
\* of job i of a run, successful or not, change only job i of that run: every
\* other job and the cursor are as before, and the jobs of another run are
\* not touched at all.
C23_RetryIsolation ==
  [][blast'.op \in {"retry", "retryDone", "retryError"} =>
       LET i == blast'.index
       IN  /\ wizard'.currentBatchIndex = wizard.currentBatchIndex
           /\ Len(wizard'.batchResults) = Len(wizard.batchResults)
           /\ \A j \in JobIndices \ {i} :
                HasJob(wizard, j) => wizard'.batchResults[j + 1] = wizard.batchResults[j + 1]
           /\ \A c \in CallsResolved :
                c.run # loop.run => wizard'.batchResults = wizard.batchResults]_vars

\* the image calls that were started in the step
CallsStarted == CallIds(calls') \ CallIds(calls)

\* C24: a retry is accepted only for a job whose status is Error: a retry
\* call is started, and a job is put into Generating by a retry, only for a
\* job in Error, and for a job that is Pending, Generating or Done no retry
\* can be requested, so no Generator call is made and the job is not changed.
C24_RetryOnlyForErrorJobs ==
  [][/\ \A c \in CallsStarted :
          c.kind = "retry" =>
            /\ jobStatus(wizard, c.index) = "error"
            /\ blast'.op = "retry" /\ blast'.index = c.index
     /\ blast'.op = "retry" =>
          /\ jobStatus(wizard, blast'.index) = "error"
          /\ CallsStarted = {[kind |-> "retry", index |-> blast'.index, run |-> loop.run]}
     /\ \A i \in JobIndices :
          jobStatus(wizard, i) \in {"pending", "generating", "done"} =>
            ~ENABLED HandleRetryItem(i)]_vars

\* C24 witness: a retry was accepted for job 1, in Error, next to job 0, Done,
\* for which none can be requested.
C24_Witness ==
  /\ blast.op = "retry"
  /\ blast.index = 1
  /\ jobStatus(wizard, 0) = "done"
  /\ jobStatus(wizard, 1) = "generating"
  /\ ~wizard.isBatchGenerating
  /\ \E c \in calls : c.kind = "retry" /\ c.index = 1

\* C25: in every reachable state of a batch run, no job with an index lower
\* than the cursor (the index of the job being processed) has status Pending.
C25_NoPendingBelowCursor ==
  \A j \in JobIndices :
    (HasJob(wizard, j) /\ j < wizard.currentBatchIndex) => jobStatus(wizard, j) # "pending"

\* C25 witness: the cursor is on job 1, which is Generating; job 0 below it
\* ended in Error and job 2 above it is still Pending.
C25_Witness ==
  /\ wizard.isBatchGenerating
  /\ wizard.currentBatchIndex = 1
  /\ jobStatus(wizard, 0) = "error"
  /\ jobStatus(wizard, 1) = "generating"
  /\ jobStatus(wizard, 2) = "pending"

\* C26: a launch with quantity q creates exactly q jobs, with the indices
\* 0..q-1 in ascending order, all created Pending without artifact or error
\* detail (the run loop starts job 0 in the same step) and with the cancelled
\* flag false; from then on the number of jobs does not change until the run
\* is discarded.
C26_LaunchCreatesJobs ==
  [][/\ blast'.op = "items" =>
          LET q == wizard.batchQuantity
          IN  /\ q >= 1
              /\ Len(wizard.batchResults) = 0
              /\ Len(wizard'.batchResults) = q
              /\ \A k \in 1..q :
                   /\ wizard'.batchResults[k].index = k - 1
                   /\ wizard'.batchResults[k].imageUrl = 0
                   /\ wizard'.batchResults[k].error = 0
                   /\ wizard'.batchResults[k].status = IF k = 1 THEN "generating" ELSE "pending"
              /\ ~wizard'.batchCancelled
     /\ (Len(wizard.batchResults) > 0 /\ blast'.op # "reset") =>
          Len(wizard'.batchResults) = Len(wizard.batchResults)]_vars

\* C26 witness: a launch with quantity 3 has created jobs 0, 1 and 2.
C26_Witness ==
  /\ blast.op = "items"
  /\ wizard.batchQuantity = 3
  /\ Len(wizard.batchResults) = 3
  /\ jobStatus(wizard, 0) = "generating"
  /\ jobStatus(wizard, 1) = "pending"
  /\ jobStatus(wizard, 2) = "pending"
  /\ ~wizard.batchCancelled

\* the wizard as it was when the launch awaiting its posts was invoked: the
\* launch set the generating flag, cleared the cancelled flag and left the
\* batch step
BeforeLaunch(w, lp) ==
  [w EXCEPT !.isBatchGenerating = FALSE, !.batchCancelled = lp.cancelled, !.step = "batch"]

\* C27 (as claimed): when the caption step of a launch fails (the call throws
\* or returns an unsuccessful result), no job is created, no Generator call
\* is made, and the state is left as it was before the launch.
C27_CaptionFailureLeavesState ==
  [][/\ blast'.op = "launch" => CallsStarted = {} /\ wizard'.batchResults = << >>
     /\ blast'.op \in {"postsThrow", "postsFailed"} =>
          /\ wizard'.batchResults = << >>
          /\ CallsStarted = {}
          /\ wizard' = BeforeLaunch(wizard, loop)]_vars

\* C28 (as claimed): between the end of job i and the start of job i+1 the
\* run loop always waits one inter-job delay: a job after job 0 is started by
\* the loop only at the end of a delay, and a delay begins only at the end of
\* a job; the loop performs no delay after the last job or when the run has
\* been cancelled.
C28_InterJobDelay ==
  [][/\ \A i \in JobIndices :
          (EntersGenerating(i) /\ blast'.op # "retry" /\ i > 0) =>
            /\ blast'.op = "delayDone"
            /\ loop.pc = "delay"
     /\ (loop'.pc = "delay" /\ loop.pc # "delay") =>
          /\ blast'.op \in {"jobDone", "jobError"}
          /\ blast'.index < loop.n - 1
          /\ ~wizard.batchCancelled]_vars

\* the batch run when every awaited call comes back and the timer of the
\* delay fires
SpecBatchFair ==
  /\ SpecBatch
  /\ WF_vars(PostsResolve)
  /\ WF_vars(ImageResolve)
  /\ WF_vars(DelayDone)
  /\ WF_vars(RetryResolve)

\* the step passes the top of a loop iteration, where the loop tests its
\* index and the cancelled flag
LoopBoundary ==
  \/ blast'.op = "delayDone"
  \/ blast'.op \in {"jobDone", "jobError"} /\ loop.pc = "image" /\ loop'.pc # "delay"

\* the step in which generateBatch returns
RunEnds == wizard.isBatchGenerating /\ ~wizard'.isBatchGenerating

\* C29 (as claimed): provided every awaited call resolves, the run loop
\* terminates; a run that was not cancelled ends with every job in Done or
\* Error, and a run that was cancelled ends at the next loop-iteration
\* boundary after cancel was called.
C29_RunTerminates ==
  /\ wizard.isBatchGenerating ~> ~wizard.isBatchGenerating
  /\ [][/\ (RunEnds /\ ~wizard.batchCancelled) =>
              \A j \in JobIndices : HasJob(wizard', j) => Terminal(wizard', j)
        /\ (LoopBoundary /\ wizard.batchCancelled) => RunEnds]_vars

\* C30: a retry calls the Generator once, for the single job: on success the
\* job becomes Done with the new artifact and its error detail cleared (so
\* Done, Error, Done becomes Done, Done, Done); on a repeated failure the job
\* is Error again with an error detail, and the failure is shown to the user
\* who asked for the retry.
C30_RetryOutcome ==
  [][/\ \A c \in CallsStarted :
          c.kind = "retry" =>
            /\ CallsStarted = {c}
            /\ blast'.op = "retry" /\ blast'.index = c.index
     /\ \A c \in CallsResolved :
          c.kind = "retry" =>
            LET i == c.index
            IN  /\ CallsResolved = {c}
                /\ CallsStarted = {}
                /\ blast'.index = i
                /\ blast'.op \in {"retryDone", "retryError"}
                /\ (blast'.op = "retryDone" /\ HasJob(wizard, i)) =>
                     /\ jobStatus(wizard', i) = "done"
                     /\ wizard'.batchResults[i + 1].imageUrl # 0
                     /\ wizard'.batchResults[i + 1].error = 0
                /\ (blast'.op = "retryError" /\ HasJob(wizard, i)) =>
                     /\ jobStatus(wizard', i) = "error"
                     /\ wizard'.batchResults[i + 1].error # 0
                /\ blast'.op = "retryError" => blast'.toast = "error"]_vars

\* C30 witness: a run of three jobs ended Done, Error, Done, and the retry of
\* job 1 has made it Done, Done, Done, job 1 holding an artifact and no error
\* detail.
C30_Witness ==
  /\ blast.op = "retryDone"
  /\ blast.index = 1
  /\ Len(wizard.batchResults) = 3
  /\ \A j \in 0..2 : jobStatus(wizard, j) = "done"
  /\ wizard.batchResults[2].imageUrl # 0
  /\ wizard.batchResults[2].error = 0

\* the indices of the jobs that are Done, in ascending order
RECURSIVE doneIndicesFrom(_, _)
doneIndicesFrom(w, i) ==
  IF i >= Len(w.batchResults) THEN << >>
  ELSE IF jobStatus(w, i) = "done" THEN <<i>> \o doneIndicesFrom(w, i + 1)
       ELSE doneIndicesFrom(w, i + 1)

\* C31: the aggregate export takes exactly the jobs whose status is Done, in
\* ascending index order; Pending, Generating and Error jobs are never
\* included.
C31_ExportIsDoneJobs ==
  [][blast'.op = "downloadAll" =>
       /\ blast'.exported = doneIndicesFrom(wizard, 0)
       /\ \A k \in 1..Len(blast'.exported) :
            /\ jobStatus(wizard, blast'.exported[k]) = "done"
            /\ k > 1 => blast'.exported[k - 1] < blast'.exported[k]]_vars

\* C31 witness: the download of a run that ended Done, Error, Done took jobs
\* 0 and 2.
C31_Witness ==
  /\ blast.op = "downloadAll"
  /\ blast.exported = <<0, 2>>
  /\ jobStatus(wizard, 1) = "error"

\* C32: in every reachable state of a batch run, a job that is Done has an
\* artifact, a job that is Error has an error detail, and a job that is
\* Pending has neither.
C32_StatusMatchesFields ==
  \A j \in JobIndices :
    HasJob(wizard, j) =>
      LET item == wizard.batchResults[j + 1]
      IN  /\ item.status = "done" => item.imageUrl # 0
          /\ item.status = "error" => item.error # 0
          /\ item.status = "pending" => item.imageUrl = 0 /\ item.error = 0

\* C32 witness: a run holds a Done job with its artifact, an Error job with
\* its error detail and a Pending job with neither.
C32_Witness ==
  /\ Len(wizard.batchResults) = 3
  /\ jobStatus(wizard, 0) = "done" /\ wizard.batchResults[1].imageUrl # 0
  /\ jobStatus(wizard, 1) = "error" /\ wizard.batchResults[2].error # 0
  /\ jobStatus(wizard, 2) = "pending"
  /\ wizard.batchResults[3].imageUrl = 0 /\ wizard.batchResults[3].error = 0

\* the jobs that are Generating
GeneratingJobs(w) == {j \in JobIndices : jobStatus(w, j) = "generating"}

\* C33 (as claimed): in every reachable state of a batch run at most one job
\* is Generating, counting the run loop and the retries: a retry starts only
\* when the run loop is not active and no other retry that writes to a job of
\* the run is in flight.
C33_AtMostOneGenerating ==
  [][/\ Cardinality(GeneratingJobs(wizard')) <= 1
     /\ \A c \in CallsStarted :
          c.kind = "retry" =>
            /\ ~wizard.isBatchGenerating
            /\ loop.pc = "idle"
            /\ \A d \in CallsOnRun(calls, wizard) : d.kind # "retry"]_vars

\* the changes of status a job may make in one step
StatusStep(from, to, op) ==
  \/ from = "pending" /\ to = "generating"
  \/ from = "generating" /\ to \in {"done", "error"}
  \/ from = "error" /\ to = "generating" /\ op = "retry"

\* C34 (as claimed): within a run a job's status only goes from Pending to
\* Generating to Done or Error and, through a retry, from Error to Generating
\* to Done or Error: a job that is Done never changes its status again, and
\* no job returns to Pending.
C34_StatusTransitions ==
  [][\A j \in JobIndices :
       (HasJob(wizard, j) /\ HasJob(wizard', j) /\ jobStatus(wizard', j) # jobStatus(wizard, j)) =>
         StatusStep(jobStatus(wizard, j), jobStatus(wizard', j), blast'.op)]_vars

\* ----------------------------------------------- claims on the page, 3

\* C35 (as claimed): in every reachable Running state whose active stage is
\* not the first, some earlier stage holds a Done artifact, so the backward
\* lookup is not empty and no stage after the first is refused for lack of a
\* previous image.
C35_PreviousImageExists ==
  /\ (Running(state) /\ activeStageIndex(state) > 0) =>
       /\ \E i \in StageIndices :
            i < activeStageIndex(state) /\ IsDone(state, i) /\ imageUrlAt(state, i) # 0
       /\ getPreviousStepImage(state) # 0
  /\ last.op # "generateRefused"

\* C36 (as claimed): in every reachable Finished state the pipeline has an
\* output: at least one stage holds a Done result with a non-empty artifact,
\* so the lookup of the latest Done artifact is not empty.
C36_FinishedHasOutput ==
  Finished(state) =>
    /\ \E i \in StageIndices : IsDone(state, i) /\ imageUrlAt(state, i) # 0
    /\ getLatestImage(state) # 0

\* ------------------------------------------- claims on the batch run, 2

\* C37: the batch driver always returns control: on every path (the caption
\* call throws, the caption call returns an unsuccessful result, all jobs are
\* processed, the run was cancelled) the generating flag set at launch is
\* eventually cleared, with generateBatch no longer running.
C37_DriverReturnsControl ==
  /\ wizard.isBatchGenerating ~> (~wizard.isBatchGenerating /\ loop.pc = "idle")
  /\ [][blast'.op \in {"postsThrow", "postsFailed"} =>
          ~wizard'.isBatchGenerating /\ loop'.pc = "idle"]_vars

\* C37 witness: a run of two jobs that was cancelled has returned, the
\* generating flag cleared.
C37_Witness ==
  /\ wizard.batchCancelled
  /\ ~wizard.isBatchGenerating
  /\ loop.pc = "idle"
  /\ loop.run = 1
  /\ Len(wizard.batchResults) = 2
  /\ blast.op \in {"jobDone", "jobError"}

====
